---- MODULE Spec2Model ----
(***************************************************************************)
(* Model of four EasyBuild easyblocks: EB_libsmm, EB_Paraver,              *)
(* EB_Score_minus_P and EB_TensorRT.  Each easyblock is a plugin whose     *)
(* step methods are called by the host framework in lifecycle order.      *)
(* Strings are TLA+ strings; Python's None is the value None below.       *)
(***************************************************************************)
EXTENDS Integers, Sequences, FiniteSets, TLC

VARIABLES
    block,      \* the easyblock class under execution
    pc,         \* the lifecycle step the host calls next
    err,        \* message of the EasyBuildError raised, "" when none
    cmds,       \* shell commands run so far, in order
    version,    \* self.version
    name,       \* self.name
    installdir, \* self.installdir
    toolchain,  \* what self.toolchain reports
    env,        \* process environment and loaded dependencies
    cfg,        \* self.cfg, the easyconfig parameters
    fs,         \* the part of the file system the steps read and write
    self        \* attributes the easyblock keeps on itself

vars == <<block, pc, err, cmds, version, name, installdir, toolchain, env, cfg, fs, self>>

(***************************************************************************)
(* Bounds of the model.                                                    *)
(***************************************************************************)
MaxDims == 3
MaxVersionPart == 8

(***************************************************************************)
(* Python values and string helpers.                                       *)
(***************************************************************************)
None == "<None>"

\* truth value of an optional string: None and '' are false
Truthy(v) == v # None /\ v # ""

\* '%s' % v for a string or None
Str(v) == IF v = None THEN "None" ELSE v

Digits == <<"0", "1", "2", "3", "4", "5", "6", "7", "8", "9">>

RECURSIVE IntStr(_)
\* str(n) for a natural number n
IntStr(n) == IF n < 10 THEN Digits[n + 1] ELSE IntStr(n \div 10) \o Digits[(n % 10) + 1]

RECURSIVE Join(_, _)
\* sep.join(items) for a sequence of strings
Join(sep, items) ==
    IF items = <<>> THEN ""
    ELSE IF Len(items) = 1 THEN items[1]
    ELSE items[1] \o sep \o Join(sep, Tail(items))

IsDigit(c) == \E i \in 1..10 : Digits[i] = c

DigitVal(c) == (CHOOSE i \in 1..10 : Digits[i] = c) - 1

\* the i-th character of a string
Char(s, i) == SubSeq(s, i, i)

\* the positions of character c in s
Positions(s, c) == { i \in 1..Len(s) : Char(s, i) = c }

\* the k-th smallest member of a set of numbers
Nth(S, k) == CHOOSE i \in S : Cardinality({ j \in S : j < i }) = k - 1

\* s.split(sep) for a one-character separator
SplitOn(s, sep) ==
    LET at == Positions(s, sep)
        n == Cardinality(at)
    IN  [k \in 1..(n + 1) |->
            SubSeq(s, IF k = 1 THEN 1 ELSE Nth(at, k - 1) + 1,
                      IF k = n + 1 THEN Len(s) ELSE Nth(at, k) - 1)]

RECURSIVE ParseInt(_, _)
\* int(s) for a string of digits; acc is the value read so far
ParseInt(s, acc) == IF s = "" THEN acc ELSE ParseInt(Tail(s), acc * 10 + DigitVal(Head(s)))

StartsWith(s, p) == Len(s) >= Len(p) /\ SubSeq(s, 1, Len(p)) = p

RECURSIVE VersionParts(_, _, _)
\* the component list of LooseVersion(s) for a dotted numeric version string
VersionParts(s, cur, reading) ==
    IF s = "" THEN (IF reading THEN <<cur>> ELSE <<>>)
    ELSE IF IsDigit(Head(s)) THEN VersionParts(Tail(s), cur * 10 + DigitVal(Head(s)), TRUE)
    ELSE (IF reading THEN <<cur>> ELSE <<>>) \o VersionParts(Tail(s), 0, FALSE)

LooseVersion(s) == VersionParts(s, 0, FALSE)

RECURSIVE VersionLess(_, _)
\* a < b on LooseVersion component lists: Python list comparison
VersionLess(a, b) ==
    IF a = <<>> THEN b # <<>>
    ELSE IF b = <<>> THEN FALSE
    ELSE IF a[1] # b[1] THEN a[1] < b[1]
    ELSE VersionLess(Tail(a), Tail(b))

VersionGE(a, b) == ~VersionLess(a, b)

\* the version strings "a", "a.b" and "a.b.c" with parts in 0..MaxVersionPart
VersionStrings ==
    { Join(".", [i \in 1..Len(v) |-> IntStr(v[i])]) :
        v \in UNION { [1..n -> 0..MaxVersionPart] : n \in 1..3 } }

Range(s) == { s[i] : i \in 1..Len(s) }

\* os.path.join(a, b)
PathJoin(a, b) == a \o "/" \o b

(***************************************************************************)
(* Host framework: errors and the parent classes' steps.                   *)
(***************************************************************************)
\* raise EasyBuildError(msg): the step is abandoned and the run fails
Raise(msg) == /\ err' = msg
              /\ pc' = "failed"

\* the commands run when the k-th of them exits non-zero (k = 0: none does)
RunCmds(list, k) == IF k = 0 THEN list ELSE SubSeq(list, 1, k)

\* EasyBlock.sanity_check_step(custom_paths): every listed file must exist
SanityCheck(files) ==
    /\ cmds' = Append(cmds, "sanity_check")
    /\ IF files \subseteq fs.installed
       THEN /\ pc' = "done"
            /\ err' = err
       ELSE Raise("Sanity check failed")

\* EasyBlock.sanity_check_step(custom_paths, custom_commands): every listed
\* path must exist and every command, run after the paths are looked at, must
\* succeed; the commands are all run and the failures reported together
SanityCheckCommands(files, commands) ==
    \E failing \in SUBSET DOMAIN commands :
        /\ cmds' = Append(cmds, "sanity_check") \o commands
        /\ IF files \subseteq fs.installed /\ failing = {}
           THEN /\ pc' = "done"
                /\ err' = err
           ELSE Raise("Sanity check failed")

(***************************************************************************)
(* EB_libsmm                                                               *)
(***************************************************************************)
GCC == "GCC"

\* the values of 'dims' tried: lists of at most MaxDims of these dimensions
DimChoices == {1, 4, 13}
DimLists == UNION { [1..n -> DimChoices] : n \in 0..MaxDims }

\* EB_libsmm.extra_options: the defaults of the custom easyconfig parameters
libsmm_extra_options ==
    [transpose_flavour |-> 1, max_tiny_dim |-> 12, dims |-> <<1, 4, 5, 6, 9, 13, 16, 17, 22>>]

libsmm_Init ==
    /\ block = "libsmm"
    /\ pc = "configure"
    /\ err = ""
    /\ cmds = <<>>
    /\ version = "1.0"
    /\ name = "libsmm"
    /\ installdir = "/sw/libsmm"
    /\ toolchain \in [comp_family : {GCC, "Intel"}]
    /\ env \in [F90 : {None, "gfortran"}, LDFLAGS : {None, "-L/sw/lib"},
                LIBBLAS : {None, "", "-lopenblas"}, GCC_version : {"4.5", "4.6", "12.2.0"}]
    /\ cfg \in [transpose_flavour : {libsmm_extra_options.transpose_flavour},
                max_tiny_dim : {4},
                dims : DimLists \cup {libsmm_extra_options.dims},
                parallel : {8}]
    /\ fs \in [build_dir : BOOLEAN, writable : BOOLEAN, cwd : {"/build"},
               written : {<<>>}, installed : {{}}]
    /\ self = "EB_libsmm"

\* EB_libsmm.configure_step: change to tools/build_libsmm
libsmm_configure_step ==
    /\ block = "libsmm" /\ pc = "configure"
    /\ IF fs.build_dir
       THEN /\ fs' = [fs EXCEPT !.cwd = PathJoin(fs.cwd, "tools/build_libsmm")]
            /\ pc' = "build"
            /\ err' = err
       ELSE /\ Raise("Failed to change to directory tools/build_libsmm")
            /\ fs' = fs
    /\ UNCHANGED <<block, cmds, version, name, installdir, toolchain, env, cfg, self>>

\* the optimisation options and the -flto added from GCC 4.6 on
libsmm_targetcompile(hostcompile, gccVersion) ==
    LET opts == "-O2 -funroll-loops -ffast-math -ftree-vectorize -march=native -fno-inline-functions"
        extra == IF VersionGE(LooseVersion(gccVersion), LooseVersion("4.6")) THEN "-flto" ELSE ""
    IN  Str(hostcompile) \o " " \o opts \o " " \o extra

\* the 'dims' entry of cfgdict
libsmm_dims(dims) == Join(" ", [i \in 1..Len(dims) |-> IntStr(dims[i])])

\* cfgdict of build_step, without the datatype
libsmm_cfgdict(hostcompile, targetcompile) ==
    [transposeflavour |-> IntStr(cfg.transpose_flavour),
     targetcompile |-> targetcompile,
     hostcompile |-> Str(hostcompile),
     dims |-> libsmm_dims(cfg.dims),
     tiny_dims |-> Join(" ", [i \in 1..cfg.max_tiny_dim |-> IntStr(i)]),
     tasks |-> IntStr(cfg.parallel),
     LIBBLAS |-> Str(env.LDFLAGS) \o " " \o Str(env.LIBBLAS)]

\* cfg_tpl % cfgdict: the assignments of config.in (its comment lines left out)
libsmm_cfg_tpl(d, dt) ==
    [transpose_flavor |-> d.transposeflavour,
     data_type |-> IntStr(dt),
     target_compile |-> d.targetcompile,
     blas_linking |-> d.LIBBLAS,
     dims_small |-> d.dims,
     dims_tiny |-> d.tiny_dims,
     host_compile |-> d.hostcompile \o " ",
     tasks |-> d.tasks]

\* the datatypes built, in order
libsmm_datatypes == <<1, 3>>

\* does build_step accept this compiler family
libsmm_compiler_supported(fam) == fam = GCC

libsmm_libblas_found_unset_only(v) == v # None

\* does build_step accept this value of LIBBLAS
libsmm_libblas_found(v) == Truthy(v)

\* EB_libsmm.build_step: write config.in and build, once per datatype
libsmm_build_step ==
    /\ block = "libsmm" /\ pc = "build"
    /\ IF ~libsmm_compiler_supported(toolchain.comp_family)
       THEN /\ Raise("No supported compiler found (tried GCC)")
            /\ UNCHANGED <<fs, cmds>>
       ELSE IF ~libsmm_libblas_found(env.LIBBLAS)
       THEN /\ Raise("No BLAS library specifications found (LIBBLAS not set)!")
            /\ UNCHANGED <<fs, cmds>>
       ELSE IF ~fs.writable
       THEN /\ Raise("Failed to write config.in")
            /\ UNCHANGED <<fs, cmds>>
       ELSE LET hostcompile == env.F90
                d == libsmm_cfgdict(hostcompile, libsmm_targetcompile(hostcompile, env.GCC_version))
                all == <<"./do_clean", "./do_all", "./do_clean", "./do_all">>
            IN  \E k \in 0..Len(all) :
                  \* datatype i is configured before its two commands run
                  LET n == IF k = 0 THEN Len(libsmm_datatypes) ELSE (k + 1) \div 2
                  IN  /\ fs' = [fs EXCEPT !.written =
                                   fs.written \o [i \in 1..n |-> libsmm_cfg_tpl(d, libsmm_datatypes[i])]]
                      /\ cmds' = cmds \o RunCmds(all, k)
                      /\ IF k = 0
                         THEN /\ pc' = "install"
                              /\ err' = err
                         ELSE Raise("cmd failed: " \o all[k])
    /\ UNCHANGED <<block, version, name, installdir, toolchain, env, cfg, self>>

\* the files the sanity check of libsmm expects
libsmm_custom_paths == {"lib/libsmm_dnn.a", "lib/libsmm_znn.a"}

\* EB_libsmm.install_step: clean, then copy lib to the installation directory
libsmm_install_step ==
    /\ block = "libsmm" /\ pc = "install"
    /\ \E ok \in BOOLEAN, built \in SUBSET libsmm_custom_paths :
         IF ok
         THEN /\ cmds' = cmds \o <<"./do_clean", "copy_dir lib">>
              /\ fs' = [fs EXCEPT !.installed = fs.installed \cup built]
              /\ pc' = "sanity"
              /\ err' = err
         ELSE /\ cmds' = Append(cmds, "./do_clean")
              /\ fs' = fs
              /\ Raise("cmd failed: ./do_clean")
    /\ UNCHANGED <<block, version, name, installdir, toolchain, env, cfg, self>>

\* EB_libsmm.sanity_check_step
libsmm_sanity_check_step ==
    /\ block = "libsmm" /\ pc = "sanity"
    /\ SanityCheck(libsmm_custom_paths)
    /\ UNCHANGED <<block, version, name, installdir, toolchain, env, cfg, fs, self>>

libsmm_Next ==
    \/ libsmm_configure_step
    \/ libsmm_build_step
    \/ libsmm_install_step
    \/ libsmm_sanity_check_step

SpecLibsmm == libsmm_Init /\ [][libsmm_Next]_vars

(***************************************************************************)
(* ConfigureMake, the parent class of EB_Paraver and EB_Score_minus_P.     *)
(***************************************************************************)
\* ConfigureMake.configure_step: run ./configure with the configure options
ConfigureMake_configure_step(configopts) ==
    \E ok \in BOOLEAN :
      /\ cmds' = Append(cmds, "./configure --prefix=" \o installdir \o " " \o configopts)
      /\ IF ok
         THEN /\ pc' = "build"
              /\ err' = err
         ELSE Raise("cmd failed: ./configure")

\* ConfigureMake.build_step: run make
ConfigureMake_build_step ==
    \E ok \in BOOLEAN :
      /\ cmds' = Append(cmds, "make")
      /\ IF ok
         THEN /\ pc' = "install"
              /\ err' = err
         ELSE Raise("cmd failed: make")

\* ConfigureMake.install_step: run make install, which leaves one of the
\* file sets of `outcomes` in the installation directory
ConfigureMake_install_step(outcomes, next) ==
    \E ok \in BOOLEAN, made \in outcomes :
      /\ cmds' = Append(cmds, "make install")
      /\ IF ok
         THEN /\ fs' = [fs EXCEPT !.installed = fs.installed \cup made]
              /\ pc' = next
              /\ err' = err
         ELSE /\ fs' = fs
              /\ Raise("cmd failed: make install")

(***************************************************************************)
(* EB_Score_minus_P                                                        *)
(***************************************************************************)
SYSTEM == "system"
IBMCOMP == "IBMXL"
INTELCOMP == "Intel"
NVHPC == "NVHPC"
PGI == "PGI"
CRAYPE == "CrayPE"
INTELMPI == "IntelMPI"
OPENMPI == "OpenMPI"
MPICH == "MPICH"
MPICH2 == "MPICH2"
MVAPICH2 == "MVAPICH2"

\* cfg.update('configopts', item) on a string value: param + ' %s ' % item
UpdateStr(param, item) == param \o " " \o item \o " "

\* the position of the first '%' of a format, 0 when it has none
FirstPercent(fmt) ==
    IF Positions(fmt, "%") = {} THEN 0 ELSE Nth(Positions(fmt, "%"), 1)

RECURSIVE PyFormat(_, _)
\* fmt % v for a format with '%s' and '%%' directives and one string argument;
\* the format is read left to right, one directive at a time
PyFormat(fmt, v) ==
    LET i == FirstPercent(fmt)
        rest == SubSeq(fmt, i + 2, Len(fmt))
    IN  IF i = 0 \/ i = Len(fmt) THEN fmt
        ELSE IF Char(fmt, i + 1) = "s" THEN SubSeq(fmt, 1, i - 1) \o Str(v) \o PyFormat(rest, v)
        ELSE IF Char(fmt, i + 1) = "%" THEN SubSeq(fmt, 1, i - 1) \o "%" \o PyFormat(rest, v)
        ELSE SubSeq(fmt, 1, i + 1) \o PyFormat(rest, v)

RECURSIVE HasDirective(_)
\* does the format consume an argument; when not, fmt % v raises TypeError
HasDirective(fmt) ==
    LET i == FirstPercent(fmt)
    IN  IF i = 0 \/ i = Len(fmt) THEN FALSE
        ELSE IF Char(fmt, i + 1) = "s" THEN TRUE
        ELSE HasDirective(SubSeq(fmt, i + 2, Len(fmt)))

\* does configure_step patch the configure scripts of this version
scorep_needs_yes_no_fix(v) ==
    /\ VersionGE(LooseVersion(v), LooseVersion("8.0"))
    /\ VersionLess(LooseVersion(v), LooseVersion("8.5"))

scorep_configure_scripts(start_dir) ==
    { PathJoin(PathJoin(start_dir, d), "configure") : d \in {"build-backend", "build-mpi", "build-shmem"} }

\* first version of each package that knows the nvhpc compiler suite
nvhpc_since ==
    [n \in {"Score-P", "Scalasca", "OTF2", "CubeWriter", "CubeLib", "CubeGUI"} |->
        CASE n = "Score-P" -> "8.0"
          [] n = "Scalasca" -> "2.6.1"
          [] n = "OTF2" -> "3.0.2"
          [] OTHER -> "4.8"]

\* nvhpc_since.get(name, '0')
nvhpc_since_get(n) == IF n \in DOMAIN nvhpc_since THEN nvhpc_since[n] ELSE "0"

scorep_nvhpc_is_pgi_inclusive(n, v) ==
    ~VersionLess(LooseVersion(nvhpc_since_get(n)), LooseVersion(v))

\* does this version of the package predate the nvhpc compiler suite
scorep_nvhpc_is_pgi(n, v) == VersionLess(LooseVersion(v), LooseVersion(nvhpc_since_get(n)))

\* comp_opts, after the adjustment for releases that predate nvhpc
comp_opts(n, v) ==
    [f \in {SYSTEM, GCC, IBMCOMP, INTELCOMP, NVHPC, PGI} |->
        CASE f = SYSTEM -> "gcc"
          [] f = GCC -> "gcc"
          [] f = IBMCOMP -> "ibm"
          [] f = INTELCOMP -> "intel"
          [] f = NVHPC -> (IF scorep_nvhpc_is_pgi(n, v) THEN "pgi" ELSE "nvhpc")
          [] f = PGI -> "pgi"]

mpi_opts ==
    [f \in {INTELMPI, OPENMPI, MPICH, MPICH2, MVAPICH2} |->
        CASE f = INTELMPI -> "intel2"
          [] f = OPENMPI -> "openmpi"
          [] f = MPICH -> "mpich3"
          [] f = MPICH2 -> "mpich2"
          [] f = MVAPICH2 -> "mpich3"]

scorep_nocross_always(tc_fam) == TRUE

\* is the compiler / MPI suite named explicitly for this toolchain family
scorep_nocross(tc_fam) == tc_fam # CRAYPE

scorep_mpi_given_always(mpi_fam) == TRUE

\* does the toolchain have an MPI family to pass to --with-mpi
scorep_mpi_given(mpi_fam) == mpi_fam # None

\* get_software_root(dep): where a loaded dependency is installed, else None
get_software_root(dep) == IF dep \in env.loaded THEN "/sw/" \o dep ELSE None

\* get_software_libdir(dep): the library subdirectory of a loaded dependency
get_software_libdir(dep) == IF dep \in env.loaded THEN "lib" ELSE None

\* the deps table of configure_step, in the order it is walked
scorep_deps ==
    << <<"binutils", <<"--with-libbfd-include=%s/include",
                       PyFormat("--with-libbfd-lib=%%s/%s", get_software_libdir("binutils"))>> >>,
       <<"libunwind", <<"--with-libunwind=%s">> >>,
       <<"Cube", <<"--with-cube=%s/bin">> >>,
       <<"CubeLib", <<"--with-cubelib=%s/bin">> >>,
       <<"CubeWriter", <<"--with-cubew=%s/bin">> >>,
       <<"CUDA", <<"--enable-cuda", "--with-libcudart=%s">> >>,
       <<"OTF2", <<"--with-otf2=%s/bin">> >>,
       <<"OPARI2", <<"--with-opari2=%s/bin">> >>,
       <<"PAPI", <<"--with-papi-header=%s/include",
                   PyFormat("--with-papi-lib=%%s/%s", get_software_libdir("PAPI"))>> >>,
       <<"PDT", <<"--with-pdt=%s/bin">> >>,
       <<"Qt", <<"--with-qt=%s">> >>,
       <<"SIONlib", <<"--with-sionlib=%s/bin">> >> >>

\* dep_opt % dep_root, the option kept as it is when there is nothing to substitute
scorep_dep_opt(dep_opt, dep_root) ==
    IF HasDirective(dep_opt) THEN PyFormat(dep_opt, dep_root) ELSE dep_opt

RECURSIVE scorep_add_dep_opts(_, _, _)
\* the inner loop: append every option of one dependency
scorep_add_dep_opts(opts, dep_opts, dep_root) ==
    IF dep_opts = <<>> THEN opts
    ELSE scorep_add_dep_opts(UpdateStr(opts, scorep_dep_opt(Head(dep_opts), dep_root)),
                             Tail(dep_opts), dep_root)

RECURSIVE scorep_add_deps(_, _)
\* the outer loop: walk the deps table, skipping dependencies that are not loaded
scorep_add_deps(opts, deps) ==
    IF deps = <<>> THEN opts
    ELSE LET dep_root == get_software_root(Head(deps)[1])
         IN  scorep_add_deps(IF Truthy(dep_root)
                             THEN scorep_add_dep_opts(opts, Head(deps)[2], dep_root)
                             ELSE opts,
                             Tail(deps))

\* the version thresholds configure_step compares against
scorep_thresholds == {"8.0", "8.5", "0"} \cup { nvhpc_since[n] : n \in DOMAIN nvhpc_since }

\* a dotted version string from its components
VersionString(p) == Join(".", [i \in 1..Len(p) |-> IntStr(p[i])])

\* component lists at and around a threshold: the threshold, its last component
\* one lower and one higher, the threshold cut short and the threshold extended
VersionsNear(p) ==
    LET n == Len(p)
    IN  {p, [p EXCEPT ![n] = @ + 1], Append(p, 0)}
        \cup (IF p[n] > 0 THEN {[p EXCEPT ![n] = @ - 1]} ELSE {})
        \cup (IF n > 1 THEN {SubSeq(p, 1, n - 1)} ELSE {})

ScorePVersions ==
    { VersionString(p) : p \in UNION { VersionsNear(LooseVersion(t)) : t \in scorep_thresholds } }

ScorePNames == {"Score-P", "Scalasca", "OTF2", "CubeWriter", "CubeLib", "CubeGUI", "OPARI2"}
CompFamilies == {SYSTEM, GCC, IBMCOMP, INTELCOMP, NVHPC, PGI, "Clang"}
MpiFamilies == {None, INTELMPI, OPENMPI, MPICH, MPICH2, MVAPICH2, "QLogicMPI"}

scorep_Init ==
    /\ block = "Score-P"
    /\ pc = "configure"
    /\ err = ""
    /\ cmds = <<>>
    /\ version \in ScorePVersions
    /\ name \in ScorePNames
    /\ installdir = "/sw/inst"
    /\ toolchain \in [toolchain_family : {CRAYPE, "gompi"}, comp_family : CompFamilies,
                      mpi_family : MpiFamilies]
    /\ env \in [vars : {{"CPPFLAGS", "LDFLAGS", "PATH"}},
                loaded : {{"binutils", "CUDA"}}]
    /\ cfg \in [configopts : {"", "--enable-shared"}]
    /\ fs = [start_dir |-> "/build/src", patched |-> {}, installed |-> {}]
    /\ self = "EB_Score_minus_P"

\* EB_Score_minus_P.configure_step
scorep_configure_step ==
    /\ block = "Score-P" /\ pc = "configure"
    /\ fs' = [fs EXCEPT !.patched = IF scorep_needs_yes_no_fix(version)
                                    THEN scorep_configure_scripts(fs.start_dir) ELSE {}]
    /\ env' = [env EXCEPT !.vars = env.vars \ {"CPPFLAGS", "LDFLAGS", "LIBS"}]
    /\ LET tc_fam == toolchain.toolchain_family
           comp_fam == toolchain.comp_family
           mpi_fam == toolchain.mpi_family
           table == comp_opts(name, version)
           with_comp == UpdateStr(cfg.configopts, "--with-nocross-compiler-suite=" \o table[comp_fam])
           with_mpi == UpdateStr(with_comp, "--with-mpi=" \o mpi_opts[mpi_fam])
       IN  IF scorep_nocross(tc_fam) /\ comp_fam \notin DOMAIN table
           THEN /\ Raise("Compiler family not supported yet")
                /\ UNCHANGED <<cfg, cmds>>
           ELSE IF scorep_nocross(tc_fam) /\ scorep_mpi_given(mpi_fam) /\ mpi_fam \notin DOMAIN mpi_opts
           THEN /\ Raise("MPI family not supported yet")
                /\ cfg' = [cfg EXCEPT !.configopts = with_comp]
                /\ UNCHANGED cmds
           ELSE LET opts == IF ~scorep_nocross(tc_fam) THEN cfg.configopts
                            ELSE IF ~scorep_mpi_given(mpi_fam) THEN with_comp
                            ELSE with_mpi
                    final == scorep_add_deps(opts, scorep_deps)
                IN  /\ cfg' = [cfg EXCEPT !.configopts = final]
                    /\ ConfigureMake_configure_step(final)
    /\ UNCHANGED <<block, version, name, installdir, toolchain, self>>

\* the inherited steps of EB_Score_minus_P
scorep_build_step ==
    /\ block = "Score-P" /\ pc = "build"
    /\ ConfigureMake_build_step
    /\ UNCHANGED <<block, version, name, installdir, toolchain, env, cfg, fs, self>>

scorep_install_step ==
    /\ block = "Score-P" /\ pc = "install"
    /\ ConfigureMake_install_step({{}, {"bin", "lib"}}, "sanity")
    /\ UNCHANGED <<block, version, name, installdir, toolchain, env, cfg, self>>

scorep_sanity_check_step ==
    /\ block = "Score-P" /\ pc = "sanity"
    /\ SanityCheck({"bin", "lib"})
    /\ UNCHANGED <<block, version, name, installdir, toolchain, env, cfg, fs, self>>

scorep_Next ==
    \/ scorep_configure_step
    \/ scorep_build_step
    \/ scorep_install_step
    \/ scorep_sanity_check_step

SpecScoreP == scorep_Init /\ [][scorep_Next]_vars

(***************************************************************************)
(* EB_Paraver                                                              *)
(***************************************************************************)
\* encodings of None for a list attribute and for an integer attribute
NoneList == <<None>>
NoneInt == -1
\* an attribute that has not been assigned yet
UnsetList == <<"<unset>">>
UnsetInt == -2

\* is this version built component by component
paraver_iterated(v) == VersionLess(LooseVersion(v), LooseVersion("4.7"))

paraver_components == <<"ptools_common_files", "paraver-kernel", "wxparaver">>

\* the configure option templates appended by run_all_steps, in order
paraver_component_configopts ==
    << "",
       "--with-boost=%(boost)s --with-ptools-common-files=%(installdir)s",
       Join(" ", <<"--with-boost=%(boost)s", "--with-wxpropgrid=%(wxpropgrid)s",
                   "--with-paraver=%(installdir)s">>) >>

RECURSIVE UpdateList(_, _)
\* cfg.update('configopts', items) on a list value: the items are appended
UpdateList(param, items) ==
    IF items = <<>> THEN param ELSE UpdateList(Append(param, Head(items)), Tail(items))

paraver_initial_configopts_kept(prior) == <<prior>>

\* the value run_all_steps gives configopts before the three updates
paraver_initial_configopts(prior) == <<>>

\* the configopts list built by run_all_steps for an iterated version
paraver_configopts_list(prior) ==
    UpdateList(UpdateList(UpdateList(paraver_initial_configopts(prior),
        <<paraver_component_configopts[1]>>),
        <<paraver_component_configopts[2]>>),
        <<paraver_component_configopts[3]>>)

\* the characters of s before the first occurrence of character c
TakeUntil(s, c) ==
    IF Positions(s, c) = {} THEN s ELSE SubSeq(s, 1, Nth(Positions(s, c), 1) - 1)

RECURSIVE PyFormatDict(_, _)
\* fmt % d for a format with '%(key)s' directives and a dictionary of strings;
\* the format is read left to right, one directive at a time
PyFormatDict(fmt, d) ==
    LET i == FirstPercent(fmt)
        rest == SubSeq(fmt, i + 2, Len(fmt))
        key == TakeUntil(rest, ")")
    IN  IF i = 0 \/ i = Len(fmt) THEN fmt
        ELSE IF Char(fmt, i + 1) = "("
        THEN SubSeq(fmt, 1, i - 1) \o Str(d[key])
                 \o PyFormatDict(SubSeq(rest, Len(key) + 3, Len(rest)), d)
        ELSE SubSeq(fmt, 1, i + 1) \o PyFormatDict(rest, d)

\* os.path.basename(path)
Basename(path) == LET parts == SplitOn(path, "/") IN parts[Len(parts)]

\* s[3:-3]
Slice3(s) == SubSeq(s, 4, Len(s) - 3)

ParaverVersions == { v \in VersionStrings : LooseVersion(v)[1] = 4 }

paraver_custom_paths ==
    {"bin/wxparaver", "include/paraverconfig.h", "lib/paraver-kernel/libparaver-kernel.a"}

paraver_Init ==
    /\ block = "Paraver"
    /\ pc = "run_all_steps"
    /\ err = ""
    /\ cmds = <<>>
    /\ version \in ParaverVersions
    /\ name = "Paraver"
    /\ installdir = "/sw/Paraver"
    /\ toolchain = [toolchain_family |-> "foss"]
    /\ env \in [loaded : SUBSET {"Boost", "wxWidgets", "wxPropertyGrid"}]
    /\ cfg \in [configopts : {"", "--enable-openmp"}, configopts_is_list : {FALSE},
                iter_opts : {<<>>}, iter_idx : {0}]
    /\ fs \in [start_dir : {"/build/src"}, cwd : {"/build/src"},
               propgrid_libs : {<<>>,
                                <<"/sw/wxPropertyGrid/lib/libwxcode_gtk2u_propgrid-2.8.so">>,
                                <<"/sw/wxPropertyGrid/lib/libwxcode_gtk2u_propgrid-2.8.so",
                                  "/sw/wxPropertyGrid/lib/libwxcode_gtk2_propgrid-2.8.so">>},
               installed : {{}}]
    /\ self = [components |-> UnsetList, current_component |-> UnsetInt]

\* EB_Paraver.run_all_steps
paraver_run_all_steps ==
    /\ block = "Paraver" /\ pc = "run_all_steps"
    /\ IF paraver_iterated(version)
       THEN /\ self' = [components |-> paraver_components, current_component |-> 0]
            /\ cfg' = [cfg EXCEPT !.configopts = paraver_configopts_list(cfg.configopts),
                                  !.configopts_is_list = TRUE]
       ELSE /\ self' = [components |-> NoneList, current_component |-> NoneInt]
            /\ cfg' = cfg
    /\ pc' = "iterate"
    /\ UNCHANGED <<block, err, cmds, version, name, installdir, toolchain, env, fs>>

\* the host starts an iteration: the sources are unpacked afresh and a
\* list-valued configopts yields the entry of this iteration
paraver_handle_iterate_opts ==
    /\ block = "Paraver" /\ pc = "iterate"
    /\ LET opts == IF cfg.configopts_is_list THEN cfg.configopts ELSE cfg.iter_opts
       IN  cfg' = [configopts |-> IF opts = <<>> THEN cfg.configopts ELSE opts[cfg.iter_idx + 1],
                   configopts_is_list |-> FALSE,
                   iter_opts |-> opts,
                   iter_idx |-> cfg.iter_idx + 1]
    /\ fs' = [fs EXCEPT !.cwd = fs.start_dir]
    /\ pc' = "configure"
    /\ UNCHANGED <<block, err, cmds, version, name, installdir, toolchain, env, self>>

\* the step the host runs after a completed install_step
paraver_after_install == IF cfg.iter_idx < Len(cfg.iter_opts) THEN "iterate" ELSE "sanity"

paraver_needs_wxwidgets_always(v) == TRUE

\* must wxWidgets be loaded for this version
paraver_needs_wxwidgets(v) == VersionGE(LooseVersion(v), LooseVersion("4.7"))

\* EB_Paraver.configure_step
paraver_configure_step ==
    /\ block = "Paraver" /\ pc = "configure"
    /\ LET boost_root == get_software_root("Boost")
           wxwidgets == get_software_root("wxWidgets")
           wx_config == IF Truthy(wxwidgets)
                        THEN PathJoin(PathJoin(wxwidgets, "bin"), "wx-config") ELSE None
           wxpropertygrid_root == get_software_root("wxPropertyGrid")
           wxpropgrid_libs == fs.propgrid_libs
           wxpropgrid == IF Truthy(wxpropertygrid_root)
                         THEN Slice3(Basename(wxpropgrid_libs[1])) ELSE None
       IN  IF ~Truthy(boost_root)
           THEN /\ Raise("Boost is not available as a dependency")
                /\ UNCHANGED <<cfg, fs, cmds>>
           ELSE IF ~Truthy(wxwidgets) /\ paraver_needs_wxwidgets(version)
           THEN /\ Raise("wxWidgets is not available as a dependency")
                /\ UNCHANGED <<cfg, fs, cmds>>
           ELSE IF Truthy(wxpropertygrid_root) /\ Len(wxpropgrid_libs) # 1
           THEN /\ Raise("Expected to find exactly one libwxcode_*_propgrid-*.so library")
                /\ UNCHANGED <<cfg, fs, cmds>>
           ELSE IF paraver_iterated(version)
           THEN LET component == self.components[self.current_component + 1]
                    opts == PyFormatDict(cfg.configopts,
                                [k \in {"boost", "installdir", "wxpropgrid"} |->
                                    CASE k = "boost" -> boost_root
                                      [] k = "installdir" -> installdir
                                      [] k = "wxpropgrid" -> wxpropgrid])
                IN  /\ fs' = [fs EXCEPT !.cwd = PathJoin(fs.cwd, component)]
                    /\ cfg' = [cfg EXCEPT !.configopts = opts]
                    /\ ConfigureMake_configure_step(opts)
           ELSE LET o1 == UpdateStr(cfg.configopts, "--with-boost=" \o boost_root)
                    o2 == UpdateStr(o1, "--with-paraver=" \o installdir)
                    o3 == UpdateStr(o2, "--with-wx-config=" \o Str(wx_config))
                    opts == IF Truthy(wxpropgrid)
                            THEN UpdateStr(o3, "--with-wxpropgrid=" \o wxpropgrid) ELSE o3
                IN  /\ fs' = fs
                    /\ cfg' = [cfg EXCEPT !.configopts = opts]
                    /\ ConfigureMake_configure_step(opts)
    /\ UNCHANGED <<block, version, name, installdir, toolchain, env, self>>

paraver_runs_make_always(v) == TRUE

\* does build_step run the parent's build_step (make) for this version
paraver_runs_make(v) == VersionLess(LooseVersion(v), LooseVersion("4.7"))

\* EB_Paraver.build_step
paraver_build_step ==
    /\ block = "Paraver" /\ pc = "build"
    /\ IF paraver_runs_make(version)
       THEN ConfigureMake_build_step
       ELSE /\ pc' = "install"
            /\ UNCHANGED <<cmds, err>>
    /\ UNCHANGED <<block, version, name, installdir, toolchain, env, cfg, fs, self>>

\* what make install can leave behind, for the component being installed
paraver_made ==
    IF ~paraver_iterated(version) THEN {{}, paraver_custom_paths, paraver_custom_paths \cup {"lib"}}
    ELSE IF self.current_component = 0 THEN SUBSET {"lib", "lib64"}
    ELSE IF self.current_component = 1
    THEN {{}, {"include/paraverconfig.h", "lib/paraver-kernel/libparaver-kernel.a"}}
    ELSE {{}, {"bin/wxparaver"}}

paraver_next_component_same(c) == c

\* self.current_component += 1
paraver_next_component(c) == c + 1

\* EB_Paraver.install_step
paraver_install_step ==
    /\ block = "Paraver" /\ pc = "install"
    /\ \E ok \in BOOLEAN, made \in paraver_made :
         LET installed == fs.installed \cup made
         IN  /\ cmds' = Append(cmds, "make install")
             /\ IF ~ok
                THEN /\ Raise("cmd failed: make install")
                     /\ UNCHANGED <<fs, self>>
                ELSE IF ~paraver_iterated(version)
                THEN /\ fs' = [fs EXCEPT !.installed = installed]
                     /\ pc' = paraver_after_install
                     /\ UNCHANGED <<err, self>>
                ELSE IF /\ self.components[self.current_component + 1] = self.components[1]
                        /\ "lib64" \in installed
                THEN IF "lib" \in installed
                     THEN /\ fs' = [fs EXCEPT !.installed = installed]
                          /\ Raise("Symlinking lib64 to lib failed: File exists")
                          /\ UNCHANGED self
                     ELSE /\ fs' = [fs EXCEPT !.installed = installed \cup {"lib", "lib -> lib64"}]
                          /\ self' = [self EXCEPT !.current_component = paraver_next_component(@)]
                          /\ pc' = paraver_after_install
                          /\ UNCHANGED err
                ELSE /\ fs' = [fs EXCEPT !.installed = installed]
                     /\ self' = [self EXCEPT !.current_component = paraver_next_component(@)]
                     /\ pc' = paraver_after_install
                     /\ UNCHANGED err
    /\ UNCHANGED <<block, version, name, installdir, toolchain, env, cfg>>

\* EB_Paraver.sanity_check_step
paraver_sanity_check_step ==
    /\ block = "Paraver" /\ pc = "sanity"
    /\ SanityCheck(paraver_custom_paths)
    /\ UNCHANGED <<block, version, name, installdir, toolchain, env, cfg, fs, self>>

paraver_Next ==
    \/ paraver_run_all_steps
    \/ paraver_handle_iterate_opts
    \/ paraver_configure_step
    \/ paraver_build_step
    \/ paraver_install_step
    \/ paraver_sanity_check_step

SpecParaver == paraver_Init /\ [][paraver_Next]_vars

(***************************************************************************)
(* EB_TensorRT                                                             *)
(***************************************************************************)
EndsWith(s, p) == Len(s) >= Len(p) /\ SubSeq(s, Len(s) - Len(p) + 1, Len(s)) = p

\* does string s hold character c
Contains(s, c) == Positions(s, c) # {}

\* glob matching of one path against a pattern with a single '*', which
\* matches any run of characters other than '/'
GlobMatch(pattern, path) ==
    LET pre == TakeUntil(pattern, "*")
        post == SubSeq(pattern, Len(pre) + 2, Len(pattern))
    IN  /\ Len(path) >= Len(pre) + Len(post)
        /\ StartsWith(path, pre)
        /\ EndsWith(path, post)
        /\ ~Contains(SubSeq(path, Len(pre) + 1, Len(path) - Len(post)), "/")

\* glob.glob(pattern) over the files of the installation directory
Glob(pattern) ==
    { PathJoin(installdir, f) : f \in { g \in fs.installed : GlobMatch(pattern, PathJoin(installdir, g)) } }

\* ''.join(get_software_version('Python').split('.')[:2])
tensorrt_pyver(python_version) ==
    LET parts == SplitOn(python_version, ".")
    IN  Join("", SubSeq(parts, 1, IF Len(parts) < 2 THEN Len(parts) ELSE 2))

\* the wheel patterns of extensions_step, in the order they are handled
tensorrt_whls(v, pyver) ==
    << PathJoin("graphsurgeon", "graphsurgeon-*-py2.py3-none-any.whl"),
       PathJoin("uff", "uff-*-py2.py3-none-any.whl"),
       PathJoin("python", "tensorrt-" \o v \o "-cp" \o pyver \o "-*-linux_x86_64.whl") >>

tensorrt_isolated_first(whl_paths) == Cardinality(whl_paths) >= 1

\* does extensions_step install from this glob result
tensorrt_isolated(whl_paths) == Cardinality(whl_paths) = 1

\* the pip command for one wheel
tensorrt_pip_cmd(whl_path) ==
    "pip install --ignore-installed --prefix=" \o installdir \o " " \o whl_path
        \o (IF cfg.exts_list # <<>> THEN " --no-deps" ELSE "")

RECURSIVE tensorrt_install_whls(_, _)
\* the loop of extensions_step over the patterns left: the pip commands it
\* runs, and whether it ends in an error
tensorrt_install_whls(whls, fail) ==
    IF whls = <<>> THEN [cmds |-> <<>>, err |-> ""]
    ELSE LET whl_paths == Glob(PathJoin(installdir, Head(whls)))
         IN  IF tensorrt_isolated(whl_paths)
             THEN LET cmd == tensorrt_pip_cmd(CHOOSE w \in whl_paths : TRUE)
                      rest == tensorrt_install_whls(Tail(whls), fail - 1)
                  IN  IF fail = 1 THEN [cmds |-> <<cmd>>, err |-> "cmd failed: pip install"]
                      ELSE [cmds |-> <<cmd>> \o rest.cmds, err |-> rest.err]
             ELSE [cmds |-> <<>>, err |-> "Failed to isolate .whl"]

\* the wheels a TensorRT tarball may ship
TensorRTWheels ==
    {"graphsurgeon/graphsurgeon-0.4.1-py2.py3-none-any.whl",
     "graphsurgeon/graphsurgeon-0.4.5-py2.py3-none-any.whl",
     "uff/uff-0.6.5-py2.py3-none-any.whl",
     "uff/uff-0.6.9-py2.py3-none-any.whl",
     "python/tensorrt-6.0.1.5-cp37-none-linux_x86_64.whl",
     "python/tensorrt-6.0.1.5-cp37-cp37m-linux_x86_64.whl",
     "python/tensorrt-6.0.1.5-cp27-none-linux_x86_64.whl",
     "python/tensorrt-5.1.5.0-cp37-none-linux_x86_64.whl"}

tensorrt_custom_paths == {"bin/trtexec", "lib/libnvinfer.a"}

tensorrt_Init ==
    /\ block = "TensorRT"
    /\ pc = "configure"
    /\ err = ""
    /\ cmds = <<>>
    /\ version \in {"6.0.1.5", "5.1.5.0"}
    /\ name = "TensorRT"
    /\ installdir = "/sw/TensorRT"
    /\ toolchain = [toolchain_family |-> "system"]
    /\ env \in [python_version : {"3.7.4", "2.7.16"}]
    /\ cfg \in [exts_list : {<<>>, <<"numpy">>}, extract_sources : {TRUE}, keepsymlinks : {TRUE},
                exts_defaultclass : {"PythonPackage"}]
    /\ fs \in [sources : SUBSET TensorRTWheels, installed : {{}}]
    /\ self = "EB_TensorRT"

\* EB_TensorRT.configure_step: nothing to do
tensorrt_configure_step ==
    /\ block = "TensorRT" /\ pc = "configure"
    /\ pc' = "build"
    /\ UNCHANGED <<block, err, cmds, version, name, installdir, toolchain, env, cfg, fs, self>>

\* EB_TensorRT.build_step: nothing to do
tensorrt_build_step ==
    /\ block = "TensorRT" /\ pc = "build"
    /\ pc' = "test"
    /\ UNCHANGED <<block, err, cmds, version, name, installdir, toolchain, env, cfg, fs, self>>

\* EB_TensorRT.test_step: nothing to do
tensorrt_test_step ==
    /\ block = "TensorRT" /\ pc = "test"
    /\ pc' = "install"
    /\ UNCHANGED <<block, err, cmds, version, name, installdir, toolchain, env, cfg, fs, self>>

\* EB_TensorRT.install_step: Binary.install_step copies the unpacked tarball
tensorrt_install_step ==
    /\ block = "TensorRT" /\ pc = "install"
    /\ \E shipped \in {{}, tensorrt_custom_paths} :
         /\ cmds' = Append(cmds, "copy " \o installdir)
         /\ fs' = [fs EXCEPT !.installed = fs.installed \cup fs.sources \cup shipped]
    /\ pc' = "extensions"
    /\ UNCHANGED <<block, err, version, name, installdir, toolchain, env, cfg, self>>

\* self.pylibdir
tensorrt_pylibdir ==
    LET parts == SplitOn(env.python_version, ".")
    IN  "lib/python" \o Join(".", SubSeq(parts, 1, 2)) \o "/site-packages"

\* EB_TensorRT.extensions_step
tensorrt_extensions_step ==
    /\ block = "TensorRT" /\ pc = "extensions"
    /\ \E parent_ok \in BOOLEAN, fail \in 0..3 :
         IF ~parent_ok
         THEN /\ fail = 0
              /\ Raise("extensions_step failed")
              /\ UNCHANGED <<cmds, fs>>
         ELSE LET r == tensorrt_install_whls(
                           tensorrt_whls(version, tensorrt_pyver(env.python_version)), fail)
              IN  /\ fail > 0 => r.err = "cmd failed: pip install"
                  /\ cmds' = cmds \o r.cmds
                  /\ fs' = [fs EXCEPT !.installed =
                               IF r.err = "" THEN @ \cup {tensorrt_pylibdir} ELSE @]
                  /\ IF r.err = ""
                     THEN /\ pc' = "sanity"
                          /\ err' = err
                     ELSE Raise(r.err)
    /\ UNCHANGED <<block, version, name, installdir, toolchain, env, cfg, self>>

\* self.python_cmd
tensorrt_python_cmd == "python"

\* the commands the sanity check must run successfully
tensorrt_custom_commands == << tensorrt_python_cmd \o " -c 'import tensorrt'" >>

\* EB_TensorRT.sanity_check_step
tensorrt_sanity_check_step ==
    /\ block = "TensorRT" /\ pc = "sanity"
    /\ SanityCheckCommands(tensorrt_custom_paths \cup {tensorrt_pylibdir},
                           tensorrt_custom_commands)
    /\ UNCHANGED <<block, version, name, installdir, toolchain, env, cfg, fs, self>>

tensorrt_Next ==
    \/ tensorrt_configure_step
    \/ tensorrt_build_step
    \/ tensorrt_test_step
    \/ tensorrt_install_step
    \/ tensorrt_extensions_step
    \/ tensorrt_sanity_check_step

SpecTensorRT == tensorrt_Init /\ [][tensorrt_Next]_vars

(***************************************************************************)
(* The four easyblocks together.                                           *)
(***************************************************************************)
Init ==
    \/ libsmm_Init
    \/ paraver_Init
    \/ scorep_Init
    \/ tensorrt_Init

Next ==
    \/ libsmm_Next
    \/ paraver_Next
    \/ scorep_Next
    \/ tensorrt_Next

Spec == Init /\ [][Next]_vars

(***************************************************************************)
(* Properties.                                                             *)
(***************************************************************************)
\* the whitespace-separated words of a command line or option string
Tokens(s) == SelectSeq(SplitOn(s, " "), LAMBDA t : t # "")

\* the positions where a word of s starts
WordStarts(s) == { i \in 1..Len(s) : Char(s, i) # " " /\ (i = 1 \/ Char(s, i - 1) = " ") }

\* how many words of s start with prefix p
CountPrefix(s, p) ==
    Cardinality({ i \in WordStarts(s) : i + Len(p) - 1 <= Len(s) /\ SubSeq(s, i, i + Len(p) - 1) = p })

\* is t one of the words of s
HasToken(s, t) ==
    \E i \in WordStarts(s) :
        LET j == i + Len(t) - 1
        IN  j <= Len(s) /\ SubSeq(s, i, j) = t /\ (j = Len(s) \/ Char(s, j + 1) = " ")

IsConfigure(c) == StartsWith(c, "./configure")

\* the configure / make / make install commands run so far, by kind
BuildKinds ==
    LET build == SelectSeq(cmds, LAMBDA c : IsConfigure(c) \/ c \in {"make", "make install"})
    IN  [i \in DOMAIN build |-> IF IsConfigure(build[i]) THEN "configure" ELSE build[i]]

SanityReached == pc \in {"sanity", "done"} \/ "sanity_check" \in Range(cmds)

OldParaver == block = "Paraver" /\ VersionLess(LooseVersion(version), <<4, 7>>)
NewParaver == block = "Paraver" /\ ~VersionLess(LooseVersion(version), <<4, 7>>)

\* the commands the sanity check of this easyblock runs on top of the file check
SanityCommands == IF block = "TensorRT" THEN tensorrt_custom_commands ELSE <<>>

\* C1 as stated: every completed run of any of the four easyblocks has run
\* configure, then make, then make install, and then the sanity check.
C1_AllRunConfigureMakeInstall ==
    pc = "done" =>
        \E i, j, k, m \in DOMAIN cmds :
            /\ i < j /\ j < k /\ k < m
            /\ IsConfigure(cmds[i])
            /\ cmds[j] = "make"
            /\ cmds[k] = "make install"
            /\ cmds[m] = "sanity_check"

\* C1 amended: Score-P and Paraver below 4.7 run configure, make, make install
\* in that order (Paraver once per component); Paraver 4.7 and above runs
\* configure and make install but never make; libsmm and TensorRT run none of
\* the three; the check of the expected files comes after every other command,
\* followed only by the commands of the sanity check itself (TensorRT's import).
C1_ConfigureMakeInstallWhereUsed ==
    LET cycle == <<"configure", "make", "make install">>
        rounds == IF block = "Paraver" THEN 3 ELSE 1
    IN  /\ \A i \in DOMAIN cmds : cmds[i] = "sanity_check" =>
              SubSeq(cmds, i + 1, Len(cmds)) = SanityCommands
        /\ block \in {"libsmm", "TensorRT"} => BuildKinds = <<>>
        /\ (block = "Score-P" \/ OldParaver) =>
              /\ \A i \in DOMAIN BuildKinds : BuildKinds[i] = cycle[((i - 1) % 3) + 1]
              /\ Len(BuildKinds) <= 3 * rounds
              /\ SanityReached => Len(BuildKinds) = 3 * rounds
        /\ NewParaver =>
              /\ Len(BuildKinds) <= 2
              /\ \A i \in DOMAIN BuildKinds : BuildKinds[i] = <<"configure", "make install">>[i]
              /\ SanityReached => Len(BuildKinds) = 2

C1_Witness == NewParaver /\ pc = "done" /\ Len(BuildKinds) = 2

LibsmmBuildRan ==
    /\ block = "libsmm"
    /\ pc \notin {"configure", "build"}
    /\ err # "Failed to change to directory tools/build_libsmm"

\* C2 as stated: with F90, LDFLAGS or LIBBLAS unset, build_step raises, writes
\* no config.in and never runs ./do_all.
C2_UnsetVariableRaises ==
    (LibsmmBuildRan /\ \E v \in {"F90", "LDFLAGS", "LIBBLAS"} : env[v] = None) =>
        /\ pc = "failed"
        /\ fs.written = <<>>
        /\ "./do_all" \notin Range(cmds)

\* C3: run_all_steps of an iterated version (below 4.7) sets the three
\* components, current_component 0 and a configopts list of the three option
\* templates whatever configopts was; from 4.7 on both attributes are None and
\* configopts is untouched; either way the parent's run_all_steps takes over.
C3_RunAllSteps ==
    [][(block = "Paraver" /\ pc = "run_all_steps") =>
          /\ pc' = "iterate"
          /\ IF VersionLess(LooseVersion(version), <<4, 7>>)
             THEN /\ self'.components = <<"ptools_common_files", "paraver-kernel", "wxparaver">>
                  /\ self'.current_component = 0
                  /\ cfg'.configopts_is_list
                  /\ cfg'.configopts =
                        << "",
                           "--with-boost=%(boost)s --with-ptools-common-files=%(installdir)s",
                           "--with-boost=%(boost)s --with-wxpropgrid=%(wxpropgrid)s --with-paraver=%(installdir)s" >>
             ELSE /\ self'.components = NoneList
                  /\ self'.current_component = NoneInt
                  /\ cfg' = cfg]_vars

C3_Witness ==
    /\ OldParaver /\ pc = "iterate" /\ cfg.iter_idx = 0
    /\ cfg.configopts_is_list /\ Len(cfg.configopts) = 3
    /\ self.current_component = 0

\* C4: configure_step raises for a missing Boost whatever the version, and for
\* a missing wxWidgets exactly when the version is 4.7 or above; when it
\* raises either error, configopts, the working directory and
\* current_component are as before and ./configure has not been run.
C4_RequiredDependencies ==
    [][(block = "Paraver" /\ pc = "configure") =>
          LET boost == "Boost" \in env.loaded
              wx == "wxWidgets" \in env.loaded
              new == ~VersionLess(LooseVersion(version), <<4, 7>>)
              boost_err == "Boost is not available as a dependency"
              wx_err == "wxWidgets is not available as a dependency"
          IN  /\ ~boost => (pc' = "failed" /\ err' = boost_err)
              /\ (boost /\ ~wx /\ new) => (pc' = "failed" /\ err' = wx_err)
              /\ (err' = wx_err) => (~wx /\ new)
              /\ (err' = boost_err) => ~boost
              /\ (err' \in {boost_err, wx_err}) =>
                    /\ cfg' = cfg
                    /\ fs'.cwd = fs.cwd
                    /\ self' = self
                    /\ cmds' = cmds]_vars

C4_Witness ==
    /\ NewParaver /\ pc = "failed"
    /\ err = "wxWidgets is not available as a dependency"
    /\ cmds = <<>>

\* the compiler families C5 lists, with the suite each is given
C5_Suites(fam) ==
    CASE fam \in {"system", "GCC"} -> {"gcc"}
      [] fam = "IBMXL" -> {"ibm"}
      [] fam = "Intel" -> {"intel"}
      [] fam = "PGI" -> {"pgi"}
      [] fam = "NVHPC" -> {"nvhpc", "pgi"}
      [] OTHER -> {}

\* C5: off CrayPE, configure_step appends exactly one
\* --with-nocross-compiler-suite option, with the suite of the compiler family,
\* and raises for a family without one; on CrayPE it appends neither that
\* option nor --with-mpi and raises for no compiler or MPI family.
C5_CompilerSuite ==
    [][(block = "Score-P" /\ pc = "configure") =>
          LET comp == "--with-nocross-compiler-suite="
              mpi == "--with-mpi="
              added(p) == CountPrefix(cfg'.configopts, p) - CountPrefix(cfg.configopts, p)
              family_errors == {"Compiler family not supported yet", "MPI family not supported yet"}
          IN  IF toolchain.toolchain_family # "CrayPE"
              THEN IF C5_Suites(toolchain.comp_family) # {}
                   THEN /\ added(comp) = 1
                        /\ \E suite \in C5_Suites(toolchain.comp_family) :
                               HasToken(cfg'.configopts, comp \o suite)
                        /\ err' # "Compiler family not supported yet"
                   ELSE /\ pc' = "failed"
                        /\ err' = "Compiler family not supported yet"
                        /\ added(comp) = 0
              ELSE /\ added(comp) = 0
                   /\ added(mpi) = 0
                   /\ err' \notin family_errors]_vars

C5_Witness ==
    /\ block = "Score-P" /\ pc = "build"
    /\ toolchain.toolchain_family = "CrayPE"
    /\ toolchain.comp_family = "Clang"
    /\ toolchain.mpi_family = "QLogicMPI"
    /\ CountPrefix(cfg.configopts, "--with-") = 3

\* the MPI families C6 lists, with the value each is given
C6_Mpi(fam) ==
    CASE fam = "IntelMPI" -> "intel2"
      [] fam = "OpenMPI" -> "openmpi"
      [] fam \in {"MPICH", "MVAPICH2"} -> "mpich3"
      [] fam = "MPICH2" -> "mpich2"
      [] OTHER -> ""

\* what C6 says of one configure_step off CrayPE
C6_Step ==
    LET mpi == "--with-mpi="
        added == CountPrefix(cfg'.configopts, mpi) - CountPrefix(cfg.configopts, mpi)
        fam == toolchain.mpi_family
    IN  IF fam = None
        THEN /\ added = 0
             /\ err' # "MPI family not supported yet"
        ELSE IF C6_Mpi(fam) # ""
        THEN /\ added = 1
             /\ HasToken(cfg'.configopts, mpi \o C6_Mpi(fam))
             /\ err' # "MPI family not supported yet"
        ELSE /\ pc' = "failed"
             /\ err' # ""
             /\ added = 0
             /\ cmds' = cmds

\* C6 as stated: for every configure_step off CrayPE.
C6_MpiOptionAnyCompiler ==
    [][(block = "Score-P" /\ pc = "configure" /\ toolchain.toolchain_family # "CrayPE") =>
          C6_Step]_vars

\* C6 amended: off CrayPE and with a compiler family that has a suite (for any
\* other the step has already raised and appends nothing), no MPI family means
\* no --with-mpi and no error, a listed family exactly one --with-mpi with its
\* value, any other family an error without ./configure being run.
C6_MpiOption ==
    [][(/\ block = "Score-P" /\ pc = "configure"
        /\ toolchain.toolchain_family # "CrayPE"
        /\ C5_Suites(toolchain.comp_family) # {}) =>
          /\ C6_Step
          /\ (C6_Mpi(toolchain.mpi_family) = "" /\ toolchain.mpi_family # None) =>
                err' = "MPI family not supported yet"]_vars

C6_Witness ==
    /\ block = "Score-P" /\ pc = "failed"
    /\ err = "MPI family not supported yet"
    /\ toolchain.mpi_family = "QLogicMPI"
    /\ CountPrefix(cfg.configopts, "--with-nocross-compiler-suite=") = 1
    /\ cmds = <<>>

\* the first release of each package with the nvhpc suite, as C7 lists them
C7_Since(n) ==
    CASE n = "Score-P" -> <<8, 0>>
      [] n = "Scalasca" -> <<2, 6, 1>>
      [] n = "OTF2" -> <<3, 0, 2>>
      [] n \in {"CubeWriter", "CubeLib", "CubeGUI"} -> <<4, 8>>
      [] OTHER -> <<>>

\* what C7 says of the configure options once configure_step has run with the
\* NVHPC compiler family
C7_SuiteByVersion ==
    LET at_least == ~VersionLess(LooseVersion(version), C7_Since(name))
        nvhpc == HasToken(cfg.configopts, "--with-nocross-compiler-suite=nvhpc")
        pgi == HasToken(cfg.configopts, "--with-nocross-compiler-suite=pgi")
    IN  /\ nvhpc <=> at_least
        /\ pgi <=> ~at_least
        /\ C7_Since(name) = <<>> => nvhpc

\* C7 as stated: with the NVHPC compiler family, on any toolchain family, the
\* suite passed is nvhpc exactly when the version is at least the package's
\* first release with it, pgi before, and always nvhpc for a package not listed.
C7_NvhpcSinceAnyToolchain ==
    (block = "Score-P" /\ pc # "configure" /\ toolchain.comp_family = "NVHPC") =>
        C7_SuiteByVersion

\* C7 amended: the same, for a toolchain family other than CrayPE (on CrayPE no
\* compiler suite is passed at all).
C7_NvhpcSince ==
    (/\ block = "Score-P" /\ pc # "configure"
     /\ toolchain.toolchain_family # "CrayPE"
     /\ toolchain.comp_family = "NVHPC") =>
        C7_SuiteByVersion

C7_Witness ==
    /\ block = "Score-P" /\ pc = "build"
    /\ name = "Scalasca" /\ version = "2.6.1"
    /\ toolchain.toolchain_family # "CrayPE"
    /\ toolchain.comp_family = "NVHPC"
    /\ HasToken(cfg.configopts, "--with-nocross-compiler-suite=nvhpc")

\* C8: build_step raises when the compiler family is not GCC and when LIBBLAS
\* is unset or empty, and then config.in has not been written and neither
\* ./do_clean nor ./do_all has been run.
C8_OnlyGCCWithBlas ==
    (LibsmmBuildRan /\ (toolchain.comp_family # "GCC" \/ env.LIBBLAS \in {None, ""})) =>
        /\ pc = "failed"
        /\ err = IF toolchain.comp_family # "GCC"
                 THEN "No supported compiler found (tried GCC)"
                 ELSE "No BLAS library specifications found (LIBBLAS not set)!"
        /\ fs.written = <<>>
        /\ cmds = <<>>

C8_Witness ==
    /\ LibsmmBuildRan /\ pc = "failed"
    /\ toolchain.comp_family = "GCC" /\ env.LIBBLAS = ""
    /\ err = "No BLAS library specifications found (LIBBLAS not set)!"

\* the numbers of a dims_small value
ParseDims(s) == LET t == Tokens(s) IN [i \in DOMAIN t |-> ParseInt(t[i], 0)]

\* C9 as stated: every dims_small written to config.in is in ascending order.
C9_DimsAscending ==
    block = "libsmm" =>
        \A w \in DOMAIN fs.written :
            LET d == ParseDims(fs.written[w].dims_small)
            IN  \A i \in 1..(Len(d) - 1) : d[i] <= d[i + 1]

\* the pip commands run so far
PipCmds == SelectSeq(cmds, LAMBDA c : StartsWith(c, "pip install"))

\* the installed files matching the k-th wheel pattern of C10
C10_Matches(k) ==
    LET py == IF env.python_version = "3.7.4" THEN "37" ELSE "27"
        pre == <<"graphsurgeon/graphsurgeon-", "uff/uff-", "python/tensorrt-" \o version \o "-cp" \o py \o "-">>
        post == <<"-py2.py3-none-any.whl", "-py2.py3-none-any.whl", "-linux_x86_64.whl">>
    IN  { f \in fs.installed : StartsWith(f, pre[k]) /\ EndsWith(f, post[k])
                               /\ Len(f) >= Len(pre[k]) + Len(post[k]) }

\* the first pattern that does not match exactly one file, 4 when all do
C10_FirstBad ==
    IF \E k \in 1..3 : Cardinality(C10_Matches(k)) # 1
    THEN CHOOSE k \in 1..3 : /\ Cardinality(C10_Matches(k)) # 1
                              /\ \A j \in 1..(k - 1) : Cardinality(C10_Matches(j)) = 1
    ELSE 4

\* C10: extensions_step handles graphsurgeon, uff, tensorrt in that order,
\* runs one pip install of the only matching wheel per pattern, and raises at
\* the first pattern with no or several matches, with the earlier wheels
\* installed and no pip command run for that pattern or a later one.
C10_WheelsInOrder ==
    (block = "TensorRT" /\ pc \in {"sanity", "done", "failed"}) =>
        LET other_errors == {"extensions_step failed", "cmd failed: pip install", "Sanity check failed"}
        IN  /\ Len(PipCmds) < C10_FirstBad
            /\ \A i \in DOMAIN PipCmds :
                  \E f \in C10_Matches(i) :
                      /\ C10_Matches(i) = {f}
                      /\ Tokens(PipCmds[i])[5] = installdir \o "/" \o f
                      /\ Tokens(PipCmds[i])[4] = "--prefix=" \o installdir
            /\ (err = "Failed to isolate .whl") =>
                  (C10_FirstBad <= 3 /\ Len(PipCmds) = C10_FirstBad - 1)
            /\ (C10_FirstBad <= 3) => (pc = "failed" /\ err # "Sanity check failed")
            /\ (C10_FirstBad <= 3 /\ err \notin other_errors) => err = "Failed to isolate .whl"
            /\ (C10_FirstBad = 4 /\ err \notin other_errors) =>
                  (Len(PipCmds) = 3 /\ pc # "failed")
            /\ err = "extensions_step failed" => PipCmds = <<>>
            /\ Len(PipCmds) > 0 => StartsWith(cmds[1], "copy ")

C10_Witness ==
    /\ block = "TensorRT" /\ pc = "failed"
    /\ err = "Failed to isolate .whl"
    /\ Len(PipCmds) = 2
    /\ Cardinality(C10_Matches(3)) = 2

\* how many times x occurs in the sequence seq
Count(seq, x) == Cardinality({ i \in DOMAIN seq : seq[i] = x })

\* the number of configure commands run so far
ConfiguresRun == Cardinality({ i \in DOMAIN cmds : IsConfigure(cmds[i]) })

C11_Step ==
    (block = "Paraver" /\ paraver_iterated(version) /\ pc # "run_all_steps") =>
        LET cc == self.current_component
            installs == Count(cmds, "make install")
        IN  /\ self'.current_component # cc =>
                  /\ pc = "install" /\ pc' # "failed"
                  /\ self'.current_component = cc + 1
            /\ (pc = "install" /\ pc' \in {"iterate", "sanity"}) =>
                  /\ self'.current_component = cc + 1
                  /\ Count(cmds', "make install") = cc + 1
                  /\ fs.cwd = PathJoin(fs.start_dir, paraver_components[cc + 1])
            /\ (pc = "install" /\ pc' = "failed") => self'.current_component = cc
            /\ pc = "configure" =>
                  /\ cc = installs /\ cc \in 0..2
                  /\ ConfiguresRun = cc
            /\ (pc = "configure" /\ pc' = "build") =>
                  fs'.cwd = PathJoin(fs.start_dir, paraver_components[cc + 1])
            /\ pc' = "sanity" =>
                  /\ self'.current_component = 3
                  /\ Count(cmds', "make install") = 3
                  /\ ConfiguresRun' = 3

\* C11: for a Paraver version below 4.7, once run_all_steps has run,
\* current_component is changed only by install_step, by exactly +1 when it
\* succeeds and not at all when it raises; at every configure_step it equals
\* the number of install_steps completed so far and lies in 0..2; the
\* components are configured and installed in the order ptools_common_files,
\* paraver-kernel, wxparaver, each exactly once, and current_component is 3
\* after the third install_step.
C11_ComponentsInOrder == [][C11_Step]_vars

C11_Witness ==
    /\ block = "Paraver" /\ paraver_iterated(version) /\ pc = "sanity"
    /\ self.current_component = 3
    /\ Count(cmds, "make install") = 3
    /\ fs.cwd = PathJoin(fs.start_dir, "wxparaver")

C12_Step ==
    (block = "Paraver" /\ pc = "install") =>
        /\ ("lib -> lib64" \in fs'.installed /\ "lib -> lib64" \notin fs.installed) =>
              /\ paraver_iterated(version)
              /\ self.current_component = 0
              /\ "lib64" \in fs'.installed
              /\ "lib" \notin fs.installed
        /\ "lib" \in fs'.installed => ~StartsWith(err', "Symlinking lib64 to lib failed")

\* C12: Paraver install_step creates the symlink lib -> lib64 only for a
\* version below 4.7, only during the install of the first component, and only
\* when lib64 exists in the installation directory and lib does not; it does
\* not fail when lib already exists; no symlink is created during the install
\* of the second and third component or for a version of 4.7 or above.
C12_SymlinkOnlyIfNeeded == [][C12_Step]_vars

====
